---- MODULE Spec2Model ----
(***************************************************************************)
(* gfix: repair of gene symbols that a spreadsheet turned into dates.      *)
(* Model of src/gfix/main.py: the date classifier                          *)
(* (try_convert_to_datetime), the formatter (format_datetime_to_gene), the *)
(* reference table (load_reference_data), the per-cell pipeline            *)
(* (process_cell_value), the sheet processor (scan_and_fix_excel) and the  *)
(* command (main).                                                         *)
(*                                                                         *)
(* Text is a sequence of one-character strings, so that strip, upper,      *)
(* startswith, replace, isdigit, float() and the date templates are        *)
(* computed character by character as the code computes them.              *)
(***************************************************************************)
EXTENDS Integers, Sequences, FiniteSets, TLC

(***************************************************************************)
(* Bounds of the model.                                                    *)
(***************************************************************************)
MaxSheets == 2
MaxCols == 2
MaxRows == 1
MaxCells == 4
NumYears == 1

(***************************************************************************)
(* Characters and text primitives (Python str methods).                    *)
(***************************************************************************)
DigitChars == <<"0", "1", "2", "3", "4", "5", "6", "7", "8", "9">>

LowerChars ==
  <<"a", "b", "c", "d", "e", "f", "g", "h", "i", "j", "k", "l", "m",
    "n", "o", "p", "q", "r", "s", "t", "u", "v", "w", "x", "y", "z">>

UpperChars ==
  <<"A", "B", "C", "D", "E", "F", "G", "H", "I", "J", "K", "L", "M",
    "N", "O", "P", "Q", "R", "S", "T", "U", "V", "W", "X", "Y", "Z">>

IsDigitCh(c) == \E k \in 1..10 : DigitChars[k] = c

DigitVal(c) == (CHOOSE k \in 1..10 : DigitChars[k] = c) - 1

\* str.upper() on one character
UpperCh(c) ==
  IF \E k \in 1..26 : LowerChars[k] = c
  THEN UpperChars[CHOOSE k \in 1..26 : LowerChars[k] = c]
  ELSE c

\* str.upper()
Upper(s) == [k \in 1..Len(s) |-> UpperCh(s[k])]

\* str.isdigit(): non-empty and every character a digit
IsDigitStr(s) == Len(s) > 0 /\ \A k \in 1..Len(s) : IsDigitCh(s[k])

\* str.replace(c, "")
Remove(s, c) == SelectSeq(s, LAMBDA ch : ch # c)

\* str.startswith(p)
StartsWith(s, p) == Len(s) >= Len(p) /\ SubSeq(s, 1, Len(p)) = p

RECURSIVE LStrip(_)
LStrip(s) == IF Len(s) > 0 /\ s[1] = " " THEN LStrip(Tail(s)) ELSE s

RECURSIVE RStrip(_)
RStrip(s) ==
  IF Len(s) > 0 /\ s[Len(s)] = " " THEN RStrip(SubSeq(s, 1, Len(s) - 1)) ELSE s

\* str.strip()
Strip(s) == RStrip(LStrip(s))

\* int() of a digit string
RECURSIVE NumVal(_)
NumVal(s) ==
  IF Len(s) = 0 THEN 0
  ELSE 10 * NumVal(SubSeq(s, 1, Len(s) - 1)) + DigitVal(s[Len(s)])

\* str.split(sep)
RECURSIVE Split(_, _)
Split(s, sep) ==
  IF \E k \in 1..Len(s) : s[k] = sep
  THEN LET p == CHOOSE k \in 1..Len(s) :
                  s[k] = sep /\ \A q \in 1..(k - 1) : s[q] # sep
       IN <<SubSeq(s, 1, p - 1)>> \o Split(SubSeq(s, p + 1, Len(s)), sep)
  ELSE <<s>>

\* str(n) for 0 <= n, and zero-padded renderings
RECURSIVE NumStr(_)
NumStr(n) ==
  IF n < 10 THEN <<DigitChars[n + 1]>>
  ELSE NumStr(n \div 10) \o <<DigitChars[(n % 10) + 1]>>

\* str(n).zfill(2)
ZFill2(n) == IF n < 10 THEN <<"0">> \o NumStr(n) ELSE NumStr(n)

ZFill4(n) ==
  IF n < 10 THEN <<"0", "0", "0">> \o NumStr(n)
  ELSE IF n < 100 THEN <<"0", "0">> \o NumStr(n)
  ELSE IF n < 1000 THEN <<"0">> \o NumStr(n)
  ELSE NumStr(n)

(***************************************************************************)
(* Cell values: the untyped union the workbook reader hands over.          *)
(*   t = "nan"   missing (None / NaN)                                      *)
(*   t = "int"   integer n;  t = "float"  float of n tenths                *)
(*   t = "str"   text s;     t = "date"   datetime (y, m, d)               *)
(*   t = "other" any other object (a time of day, ...)                     *)
(***************************************************************************)
Val(t, s, n, y, m, d) == [t |-> t, s |-> s, n |-> n, y |-> y, m |-> m, d |-> d]
NaN == Val("nan", <<>>, 0, 0, 0, 0)
Other == Val("other", <<>>, 0, 0, 0, 0)
IntV(n) == Val("int", <<>>, n, 0, 0, 0)
FloatV(n) == Val("float", <<>>, n, 0, 0, 0)
StrV(s) == Val("str", s, 0, 0, 0, 0)
DateV(y, m, d) == Val("date", <<>>, 0, y, m, d)

\* the classifier's "not a date" (None)
None == Val("none", <<>>, 0, 0, 0, 0)

(***************************************************************************)
(* Calendar.                                                               *)
(***************************************************************************)
IsLeap(y) == (y % 4 = 0 /\ y % 100 # 0) \/ y % 400 = 0

DaysInMonth(y, m) ==
  IF m = 2 THEN (IF IsLeap(y) THEN 29 ELSE 28)
  ELSE IF m \in {4, 6, 9, 11} THEN 30 ELSE 31

ValidDate(y, m, d) ==
  y >= 1 /\ y <= 9999 /\ m \in 1..12 /\ d >= 1 /\ d <= DaysInMonth(y, m)

(***************************************************************************)
(* float(x) on text (line 49): Python's float-literal grammar.  A sign, then *)
(* inf / infinity / nan, or digits with an optional point and an optional  *)
(* exponent.  Surrounding blanks are ignored by float().  Underscores     *)
(* between digits and exponents that underflow to 0.0 are not covered.     *)
(***************************************************************************)
Unsigned(s) == IF Len(s) > 0 /\ s[1] \in {"+", "-"} THEN Tail(s) ELSE s

ExpPos(s) ==
  IF \E k \in 1..Len(s) : s[k] \in {"e", "E"}
  THEN CHOOSE k \in 1..Len(s) :
         s[k] \in {"e", "E"} /\ \A q \in 1..(k - 1) : s[q] \notin {"e", "E"}
  ELSE 0

Mantissa(s) == IF ExpPos(s) = 0 THEN s ELSE SubSeq(s, 1, ExpPos(s) - 1)

IsMantissa(s) ==
  LET parts == Split(s, ".")
  IN /\ Len(parts) \in {1, 2}
     /\ \A k \in 1..Len(parts) : parts[k] = <<>> \/ IsDigitStr(parts[k])
     /\ \E k \in 1..Len(parts) : parts[k] # <<>>

IsFloatStr(x) ==
  LET u == Unsigned(Strip(x))
  IN \/ Upper(u) \in {<<"I", "N", "F">>, <<"N", "A", "N">>,
                      <<"I", "N", "F", "I", "N", "I", "T", "Y">>}
     \/ /\ IsMantissa(Mantissa(u))
        /\ ExpPos(u) # 0 => IsDigitStr(Unsigned(SubSeq(u, ExpPos(u) + 1, Len(u))))

\* float(x) == 0.0: every digit of the mantissa is 0
FloatStrIsZero(x) ==
  LET u == Unsigned(Strip(x))
  IN /\ IsMantissa(Mantissa(u))
     /\ \A k \in 1..Len(Mantissa(u)) : Mantissa(u)[k] \in {"0", "."}

(***************************************************************************)
(* The guards of try_convert_to_datetime.                                  *)
(***************************************************************************)
\* line 44: isinstance(x, datetime)
IsDatetime(x) == x.t = "date"

\* lines 48-52: a float or int, or text for which float(x) is truthy;
\* a ValueError of float() is swallowed.  NaN is a float.
NumericGuard(x) ==
  \/ x.t \in {"int", "float", "nan"}
  \/ x.t = "str" /\ IsFloatStr(x.s) /\ ~FloatStrIsZero(x.s)

\* line 60: x.upper().startswith("ST")
STGuard(s) == StartsWith(Upper(s), <<"S", "T">>)

\* line 64: x.replace(".", "").replace("-", "").isdigit()
DigitGuard(s) == IsDigitStr(Remove(Remove(s, "."), "-"))

(***************************************************************************)
(* pd.to_datetime(x, format=fmt): strict parse with one template.  The    *)
(* result is a date or a ValueError.  unit is the resolution of the        *)
(* library's timestamps: "ns" (years 1678..2261 only, anything else is an  *)
(* out-of-bounds ValueError) or "s" (every year of the calendar).          *)
(***************************************************************************)
ValueError == Val("ValueError", <<>>, 0, 0, 0, 0)
NaT == Val("nat", <<>>, 0, 0, 0, 0)

InBounds(y, unit) == unit = "ns" => (y >= 1678 /\ y <= 2261)

\* line 68: the ordered list of templates
Formats ==
  << [sep |-> "-", ord |-> <<"Y", "m", "d">>],
     [sep |-> "/", ord |-> <<"m", "d", "Y">>],
     [sep |-> "-", ord |-> <<"d", "m", "Y">>],
     [sep |-> "/", ord |-> <<"Y", "m", "d">>] >>

\* one directive of a template against one field of the text
FieldOK(f, part) ==
  /\ IsDigitStr(part)
  /\ CASE f = "Y" -> Len(part) = 4
       [] f = "m" -> Len(part) <= 2 /\ NumVal(part) \in 1..12
       [] f = "d" -> Len(part) <= 2 /\ NumVal(part) \in 1..31

FieldOf(fmt, parts, f) ==
  NumVal(parts[CHOOSE k \in 1..3 : fmt.ord[k] = f])

MakeDate(y, m, d, unit) ==
  IF ValidDate(y, m, d) /\ InBounds(y, unit) THEN DateV(y, m, d) ELSE ValueError

Strptime(s, fmt, unit) ==
  LET parts == Split(s, fmt.sep)
  IN IF Len(parts) = 3 /\ \A k \in 1..3 : FieldOK(fmt.ord[k], parts[k])
     THEN MakeDate(FieldOf(fmt, parts, "Y"), FieldOf(fmt, parts, "m"),
                   FieldOf(fmt, parts, "d"), unit)
     ELSE ValueError

(***************************************************************************)
(* pd.to_datetime(x, errors="coerce") (line 82): the permissive parse of   *)
(* the library, for the forms of text listed here; any other text is NaT.  *)
(* The text is cut into runs of letters, runs of digits and separators.    *)
(*   MMM | MMM[sep]D | D[sep]MMM            month name, no year            *)
(*   D[sep]MMM[sep]YYYY | MMM[sep]D[sep]YYYY | MMM[sep]YYYY                *)
(*   A/B/YYYY            month first, day first when A > 12                *)
(*   YYYY-MM-DD HH:MM:SS                                                   *)
(* A text without a year is completed from the default date 0001-01-01.    *)
(***************************************************************************)
MonthNames ==
  << {<<"J", "A", "N">>, <<"J", "A", "N", "U", "A", "R", "Y">>},
     {<<"F", "E", "B">>, <<"F", "E", "B", "R", "U", "A", "R", "Y">>},
     {<<"M", "A", "R">>, <<"M", "A", "R", "C", "H">>},
     {<<"A", "P", "R">>, <<"A", "P", "R", "I", "L">>},
     {<<"M", "A", "Y">>},
     {<<"J", "U", "N">>, <<"J", "U", "N", "E">>},
     {<<"J", "U", "L">>, <<"J", "U", "L", "Y">>},
     {<<"A", "U", "G">>, <<"A", "U", "G", "U", "S", "T">>},
     {<<"S", "E", "P">>, <<"S", "E", "P", "T">>, <<"S", "E", "P", "T", "E", "M", "B", "E", "R">>},
     {<<"O", "C", "T">>, <<"O", "C", "T", "O", "B", "E", "R">>},
     {<<"N", "O", "V">>, <<"N", "O", "V", "E", "M", "B", "E", "R">>},
     {<<"D", "E", "C">>, <<"D", "E", "C", "E", "M", "B", "E", "R">>} >>

MonthOf(tok) ==
  IF \E m \in 1..12 : Upper(tok) \in MonthNames[m]
  THEN CHOOSE m \in 1..12 : Upper(tok) \in MonthNames[m]
  ELSE 0

Kind(c) ==
  IF IsDigitCh(c) THEN "d"
  ELSE IF \E k \in 1..26 : c \in {LowerChars[k], UpperChars[k]} THEN "a"
  ELSE "x"

\* length of the first token of a non-empty text
RunLen(s) ==
  IF Kind(s[1]) = "x" THEN 1
  ELSE IF \E k \in 1..Len(s) : Kind(s[k]) # Kind(s[1])
       THEN (CHOOSE k \in 1..Len(s) :
               Kind(s[k]) # Kind(s[1]) /\ \A q \in 1..(k - 1) : Kind(s[q]) = Kind(s[1])) - 1
       ELSE Len(s)

RECURSIVE Tokens(_)
Tokens(s) ==
  IF Len(s) = 0 THEN <<>>
  ELSE <<SubSeq(s, 1, RunLen(s))>> \o Tokens(SubSeq(s, RunLen(s) + 1, Len(s)))

TokKind(tok) == Kind(tok[1])

Kinds(toks) == [k \in 1..Len(toks) |-> TokKind(toks[k])]

\* separators stand alone, between two words
SepsOK(toks, seps) ==
  \A k \in 1..Len(toks) :
    TokKind(toks[k]) = "x" =>
      /\ k > 1 /\ k < Len(toks)
      /\ toks[k][1] \in seps
      /\ TokKind(toks[k + 1]) # "x"

IsDay(tok) == Len(tok) <= 2 /\ NumVal(tok) \in 1..31
IsYear(tok) == Len(tok) = 4

Coerce(r) == IF r = ValueError THEN NaT ELSE r

GeneralParse(s, unit) ==
  LET toks == Tokens(s)
      w == SelectSeq(toks, LAMBDA tok : TokKind(tok) # "x")
      kw == Kinds(w)
      plain == SepsOK(toks, {"-", "/", " ", "."})
  IN Coerce(
       CASE plain /\ kw = <<"a">> /\ MonthOf(w[1]) # 0 ->
              MakeDate(1, MonthOf(w[1]), 1, unit)
         [] plain /\ kw = <<"a", "d">> /\ MonthOf(w[1]) # 0 /\ IsDay(w[2]) ->
              MakeDate(1, MonthOf(w[1]), NumVal(w[2]), unit)
         [] plain /\ kw = <<"a", "d">> /\ MonthOf(w[1]) # 0 /\ IsYear(w[2]) ->
              MakeDate(NumVal(w[2]), MonthOf(w[1]), 1, unit)
         [] plain /\ kw = <<"d", "a">> /\ MonthOf(w[2]) # 0 /\ IsDay(w[1]) ->
              MakeDate(1, MonthOf(w[2]), NumVal(w[1]), unit)
         [] plain /\ kw = <<"d", "a", "d">> /\ MonthOf(w[2]) # 0
                  /\ IsDay(w[1]) /\ IsYear(w[3]) ->
              MakeDate(NumVal(w[3]), MonthOf(w[2]), NumVal(w[1]), unit)
         [] plain /\ kw = <<"a", "d", "d">> /\ MonthOf(w[1]) # 0
                  /\ IsDay(w[2]) /\ IsYear(w[3]) ->
              MakeDate(NumVal(w[3]), MonthOf(w[1]), NumVal(w[2]), unit)
         [] SepsOK(toks, {"/"}) /\ Len(toks) = 5 /\ kw = <<"d", "d", "d">>
                  /\ IsDay(w[1]) /\ IsDay(w[2]) /\ IsYear(w[3]) ->
              IF NumVal(w[1]) <= 12
              THEN MakeDate(NumVal(w[3]), NumVal(w[1]), NumVal(w[2]), unit)
              ELSE MakeDate(NumVal(w[3]), NumVal(w[2]), NumVal(w[1]), unit)
         [] Len(toks) = 11 /\ kw = <<"d", "d", "d", "d", "d", "d">>
                  /\ <<toks[2], toks[4], toks[6], toks[8], toks[10]>>
                       = << <<"-">>, <<"-">>, <<" ">>, <<":">>, <<":">> >>
                  /\ IsYear(w[1]) /\ \A k \in 2..6 : Len(w[k]) = 2 ->
              IF NumVal(w[4]) < 24 /\ NumVal(w[5]) < 60 /\ NumVal(w[6]) < 60
              THEN MakeDate(NumVal(w[1]), NumVal(w[2]), NumVal(w[3]), unit)
              ELSE ValueError
         [] OTHER -> ValueError)

(***************************************************************************)
(* try_convert_to_datetime, piece by piece.                                *)
(***************************************************************************)
\* variant: the June date is returned as parsed
JuneMarkerKeepsDay(dt) == dt

\* lines 72-75 and 86-88: a date in June becomes datetime(2000, 6, 1)
JuneMarker(dt) == IF dt.m = 6 THEN DateV(2000, 6, 1) ELSE dt

\* one iteration of the loop of lines 68-77: the date returned, or
\* ValueError when the loop goes on
TryFormat(s, k, unit) ==
  LET dt == Strptime(s, Formats[k], unit)
  IN IF dt = ValueError THEN ValueError ELSE JuneMarker(dt)

\* lines 79-91 for text: the last resort
LastResort(s, unit) ==
  LET result == GeneralParse(s, unit)
  IN IF result = NaT THEN None ELSE JuneMarker(result)

\* lines 57-65: text that is not parsed at all
TextGuard(s) == STGuard(s) \/ DigitGuard(s)

try_convert_to_datetime(x, unit) ==
  IF IsDatetime(x) THEN x
  ELSE IF NumericGuard(x) THEN None
  ELSE IF x.t = "str"
       THEN LET s == Strip(x.s)
            IN IF TextGuard(s) THEN None
               ELSE IF \E k \in 1..Len(Formats) : TryFormat(s, k, unit) # ValueError
                    THEN TryFormat(s, CHOOSE k \in 1..Len(Formats) :
                                        /\ TryFormat(s, k, unit) # ValueError
                                        /\ \A q \in 1..(k - 1) :
                                             TryFormat(s, q, unit) = ValueError,
                                   unit)
                    ELSE LastResort(s, unit)
       ELSE None

(***************************************************************************)
(* format_datetime_to_gene                                                 *)
(***************************************************************************)
month_map ==
  << <<"J", "A", "N">>,
     <<"F", "E", "B">>,
     <<"M", "A", "R">>,
     <<"A", "P", "R">>,
     <<"M", "A", "Y">>,
     <<"J", "U", "N">>,
     <<"J", "U", "L">>,
     <<"A", "U", "G">>,
     <<"S", "E", "P">>,
     <<"O", "C", "T">>,
     <<"N", "O", "V">>,
     <<"D", "E", "C">> >>

\* variant: no special case for June
FormatNoJune(dt) == month_map[dt.m] \o <<"-">> \o ZFill2(dt.d)

\* variant: only the first of June is the bare code
FormatJuneFirstOnly(dt) ==
  IF dt.m = 6 /\ dt.d = 1 THEN <<"J", "U", "N">>
  ELSE month_map[dt.m] \o <<"-">> \o ZFill2(dt.d)

format_datetime_to_gene(dt) ==
  IF dt.m = 6 THEN <<"J", "U", "N">>
  ELSE month_map[dt.m] \o <<"-">> \o ZFill2(dt.d)

(***************************************************************************)
(* load_reference_data: the table, entry by entry.                         *)
(***************************************************************************)
\* variant: SEP-13 and SEP-15 numbered like their neighbours
ReferenceByNumber ==
  (<<"M", "A", "R", "-", "0", "1">> :> <<"M", "A", "R", "C", "H", "F", "1">>) @@
  (<<"M", "A", "R", "-", "1", "2">> :> <<"M", "A", "R", "C", "H", "F", "1">>) @@
  (<<"M", "A", "R", "-", "1", "3">> :> <<"M", "A", "R", "C", "H", "F", "1">>) @@
  (<<"M", "A", "R", "-", "1", "4">> :> <<"M", "A", "R", "C", "H", "F", "1">>) @@
  (<<"M", "A", "R", "-", "1", "5">> :> <<"M", "A", "R", "C", "H", "F", "1">>) @@
  (<<"M", "A", "R", "-", "1", "6">> :> <<"M", "A", "R", "C", "H", "F", "1">>) @@
  (<<"M", "A", "R", "-", "0", "2">> :> <<"M", "A", "R", "C", "H", "F", "2">>) @@
  (<<"M", "A", "R", "-", "0", "3">> :> <<"M", "A", "R", "C", "H", "F", "3">>) @@
  (<<"M", "A", "R", "-", "3", "1">> :> <<"M", "A", "R", "C", "H", "F", "3">>) @@
  (<<"M", "A", "R", "-", "0", "4">> :> <<"M", "A", "R", "C", "H", "F", "4">>) @@
  (<<"M", "A", "R", "-", "0", "5">> :> <<"M", "A", "R", "C", "H", "F", "5">>) @@
  (<<"M", "A", "R", "-", "0", "6">> :> <<"M", "A", "R", "C", "H", "F", "6">>) @@
  (<<"M", "A", "R", "-", "0", "7">> :> <<"M", "A", "R", "C", "H", "F", "7">>) @@
  (<<"M", "A", "R", "-", "0", "8">> :> <<"M", "A", "R", "C", "H", "F", "8">>) @@
  (<<"M", "A", "R", "-", "0", "9">> :> <<"M", "A", "R", "C", "H", "F", "9">>) @@
  (<<"M", "A", "R", "-", "1", "0">> :> <<"M", "A", "R", "C", "H", "F", "1", "0">>) @@
  (<<"M", "A", "R", "-", "1", "1">> :> <<"M", "A", "R", "C", "H", "F", "1", "1">>) @@
  (<<"S", "E", "P", "-", "0", "1">> :> <<"S", "E", "P", "T", "I", "N", "1">>) @@
  (<<"S", "E", "P", "-", "0", "2">> :> <<"S", "E", "P", "T", "I", "N", "2">>) @@
  (<<"S", "E", "P", "-", "0", "3">> :> <<"S", "E", "P", "T", "I", "N", "3">>) @@
  (<<"S", "E", "P", "-", "0", "4">> :> <<"S", "E", "P", "T", "I", "N", "4">>) @@
  (<<"S", "E", "P", "-", "0", "5">> :> <<"S", "E", "P", "T", "I", "N", "5">>) @@
  (<<"S", "E", "P", "-", "0", "6">> :> <<"S", "E", "P", "T", "I", "N", "6">>) @@
  (<<"S", "E", "P", "-", "0", "7">> :> <<"S", "E", "P", "T", "I", "N", "7">>) @@
  (<<"S", "E", "P", "-", "0", "8">> :> <<"S", "E", "P", "T", "I", "N", "8">>) @@
  (<<"S", "E", "P", "-", "0", "9">> :> <<"S", "E", "P", "T", "I", "N", "9">>) @@
  (<<"S", "E", "P", "-", "1", "0">> :> <<"S", "E", "P", "T", "I", "N", "1", "0">>) @@
  (<<"S", "E", "P", "-", "1", "1">> :> <<"S", "E", "P", "T", "I", "N", "1", "1">>) @@
  (<<"S", "E", "P", "-", "1", "2">> :> <<"S", "E", "P", "T", "I", "N", "1", "2">>) @@
  (<<"S", "E", "P", "-", "1", "3">> :> <<"S", "E", "P", "T", "I", "N", "1", "3">>) @@
  (<<"S", "E", "P", "-", "1", "4">> :> <<"S", "E", "P", "T", "I", "N", "1", "4">>) @@
  (<<"S", "E", "P", "-", "1", "5">> :> <<"S", "E", "P", "T", "I", "N", "1", "5">>) @@
  (<<"D", "E", "C", "-", "0", "1">> :> <<"D", "E", "L", "E", "C", "1">>)

load_reference_data ==
  (<<"M", "A", "R", "-", "0", "1">> :> <<"M", "A", "R", "C", "H", "F", "1">>) @@
  (<<"M", "A", "R", "-", "1", "2">> :> <<"M", "A", "R", "C", "H", "F", "1">>) @@
  (<<"M", "A", "R", "-", "1", "3">> :> <<"M", "A", "R", "C", "H", "F", "1">>) @@
  (<<"M", "A", "R", "-", "1", "4">> :> <<"M", "A", "R", "C", "H", "F", "1">>) @@
  (<<"M", "A", "R", "-", "1", "5">> :> <<"M", "A", "R", "C", "H", "F", "1">>) @@
  (<<"M", "A", "R", "-", "1", "6">> :> <<"M", "A", "R", "C", "H", "F", "1">>) @@
  (<<"M", "A", "R", "-", "0", "2">> :> <<"M", "A", "R", "C", "H", "F", "2">>) @@
  (<<"M", "A", "R", "-", "0", "3">> :> <<"M", "A", "R", "C", "H", "F", "3">>) @@
  (<<"M", "A", "R", "-", "3", "1">> :> <<"M", "A", "R", "C", "H", "F", "3">>) @@
  (<<"M", "A", "R", "-", "0", "4">> :> <<"M", "A", "R", "C", "H", "F", "4">>) @@
  (<<"M", "A", "R", "-", "0", "5">> :> <<"M", "A", "R", "C", "H", "F", "5">>) @@
  (<<"M", "A", "R", "-", "0", "6">> :> <<"M", "A", "R", "C", "H", "F", "6">>) @@
  (<<"M", "A", "R", "-", "0", "7">> :> <<"M", "A", "R", "C", "H", "F", "7">>) @@
  (<<"M", "A", "R", "-", "0", "8">> :> <<"M", "A", "R", "C", "H", "F", "8">>) @@
  (<<"M", "A", "R", "-", "0", "9">> :> <<"M", "A", "R", "C", "H", "F", "9">>) @@
  (<<"M", "A", "R", "-", "1", "0">> :> <<"M", "A", "R", "C", "H", "F", "1", "0">>) @@
  (<<"M", "A", "R", "-", "1", "1">> :> <<"M", "A", "R", "C", "H", "F", "1", "1">>) @@
  (<<"S", "E", "P", "-", "0", "1">> :> <<"S", "E", "P", "T", "I", "N", "1">>) @@
  (<<"S", "E", "P", "-", "0", "2">> :> <<"S", "E", "P", "T", "I", "N", "2">>) @@
  (<<"S", "E", "P", "-", "0", "3">> :> <<"S", "E", "P", "T", "I", "N", "3">>) @@
  (<<"S", "E", "P", "-", "0", "4">> :> <<"S", "E", "P", "T", "I", "N", "4">>) @@
  (<<"S", "E", "P", "-", "0", "5">> :> <<"S", "E", "P", "T", "I", "N", "5">>) @@
  (<<"S", "E", "P", "-", "0", "6">> :> <<"S", "E", "P", "T", "I", "N", "6">>) @@
  (<<"S", "E", "P", "-", "0", "7">> :> <<"S", "E", "P", "T", "I", "N", "7">>) @@
  (<<"S", "E", "P", "-", "0", "8">> :> <<"S", "E", "P", "T", "I", "N", "8">>) @@
  (<<"S", "E", "P", "-", "0", "9">> :> <<"S", "E", "P", "T", "I", "N", "9">>) @@
  (<<"S", "E", "P", "-", "1", "0">> :> <<"S", "E", "P", "T", "I", "N", "1", "0">>) @@
  (<<"S", "E", "P", "-", "1", "1">> :> <<"S", "E", "P", "T", "I", "N", "1", "1">>) @@
  (<<"S", "E", "P", "-", "1", "2">> :> <<"S", "E", "P", "T", "I", "N", "1", "2">>) @@
  (<<"S", "E", "P", "-", "1", "3">> :> <<"S", "E", "P", "T", "I", "N", "7", "P", "2">>) @@
  (<<"S", "E", "P", "-", "1", "4">> :> <<"S", "E", "P", "T", "I", "N", "1", "4">>) @@
  (<<"S", "E", "P", "-", "1", "5">> :> <<"S", "E", "L", "E", "N", "O", "F">>) @@
  (<<"D", "E", "C", "-", "0", "1">> :> <<"D", "E", "L", "E", "C", "1">>)

(***************************************************************************)
(* process_cell_value: the value to write and whether it was changed.      *)
(***************************************************************************)
\* pd.isna(value)
IsNa(value) == value.t \in {"nan", "nat"}

\* lines 145-150, for a date dt
Resolve(dt, gene_map) ==
  LET date_format == format_datetime_to_gene(dt)
  IN IF date_format \in DOMAIN gene_map
     THEN [v |-> StrV(gene_map[date_format]), changed |-> TRUE]
     ELSE [v |-> StrV(date_format), changed |-> TRUE]

process_cell_value(value, gene_map, unit) ==
  IF IsNa(value) THEN [v |-> value, changed |-> FALSE]
  ELSE LET dt == try_convert_to_datetime(value, unit)
       IN IF dt # None THEN Resolve(dt, gene_map)
          ELSE [v |-> value, changed |-> FALSE]

(***************************************************************************)
(* str(value) of the change log (lines 184-185, 203-205).                  *)
(***************************************************************************)
StrOf(v) ==
  CASE v.t = "str" -> v.s
    [] v.t = "date" ->
         ZFill4(v.y) \o <<"-">> \o ZFill2(v.m) \o <<"-">> \o ZFill2(v.d)
           \o <<" ", "0", "0", ":", "0", "0", ":", "0", "0">>
    [] v.t = "int" -> NumStr(v.n)
    [] v.t = "float" -> NumStr(v.n \div 10) \o <<".">> \o NumStr(v.n % 10)
    [] OTHER -> <<"n", "a", "n">>

\* line 183: f"Column header {i}"
HeaderLocation(i) == <<"C", "o", "l", "u", "m", "n", " ", "h", "e", "a", "d", "e", "r", " ">> \o NumStr(i)

\* line 203: f"Row {i}, Column {j} ({new_columns[j]})"; i, j count from 0
CellLocation(i, j, columns) ==
  <<"R", "o", "w", " ">> \o NumStr(i) \o <<",", " ", "C", "o", "l", "u", "m", "n", " ">> \o NumStr(j)
    \o <<" ", "(">> \o StrOf(columns[j + 1]) \o <<")">>

\* lines 180-187, 200-207: one entry of the change log
Change(sheet_name, location, old_value, new_value) ==
  [sheet |-> sheet_name, location |-> location,
   old_value |-> StrOf(old_value), new_value |-> StrOf(new_value)]

(***************************************************************************)
(* Inputs of the classifier: dates of a few years, texts rendered from     *)
(* them in the forms a workbook holds, numbers, and chosen texts.          *)
(***************************************************************************)
Years == {1999} \cup (2023..(2022 + NumYears))

Dates == {dt \in [y : Years, m : 1..12, d : 1..31] : ValidDate(dt.y, dt.m, dt.d)}

Renderings(dt) ==
  { ZFill4(dt.y) \o <<"-">> \o ZFill2(dt.m) \o <<"-">> \o ZFill2(dt.d),
    ZFill2(dt.m) \o <<"/">> \o ZFill2(dt.d) \o <<"/">> \o ZFill4(dt.y),
    ZFill2(dt.d) \o <<"-">> \o ZFill2(dt.m) \o <<"-">> \o ZFill4(dt.y),
    ZFill4(dt.y) \o <<"/">> \o ZFill2(dt.m) \o <<"/">> \o ZFill2(dt.d),
    ZFill2(dt.d) \o <<"/">> \o ZFill2(dt.m) \o <<"/">> \o ZFill4(dt.y),
    month_map[dt.m] \o <<"-">> \o ZFill2(dt.d),
    NumStr(dt.d) \o <<"-">> \o month_map[dt.m],
    ZFill2(dt.d) \o <<" ">> \o month_map[dt.m] \o <<" ">> \o ZFill4(dt.y),
    ZFill4(dt.y) \o <<"-">> \o ZFill2(dt.m) \o <<"-">> \o ZFill2(dt.d)
      \o <<" ", "0", "0", ":", "0", "0", ":", "0", "0">> }

SpecialTexts ==
  { <<"S", "T", "6", "G", "A", "L", "1">>,
    <<"s", "t", "8", "s", "i", "a", "1">>,
    <<" ", "S", "T", "3", "G", "A", "L", "1", " ">>,
    <<"1", "2", "3", "4", "5">>,
    <<"3", ".", "1", "4">>,
    <<"0">>,
    <<"0", ".", "0">>,
    <<"-", "0">>,
    <<"0", "e", "0">>,
    <<"+", "0">>,
    <<"0", ".", "0", "e", "0">>,
    <<"1", "e", "5">>,
    <<"-", "1", ".", "5">>,
    <<" ", "4", "2", " ">>,
    <<"i", "n", "f">>,
    <<"n", "a", "n">>,
    <<"2", "0", "2", "4">>,
    <<"1", ".", "5">>,
    <<"1", "-", "2", "-", "3">>,
    <<"1", ".", "2", ".", "3">>,
    <<"T", "P", "5", "3">>,
    <<"M", "A", "R", "C", "H", "F", "1">>,
    <<"M", "A", "R", "C", "H", "F", "1", "1">>,
    <<"S", "E", "P", "T", "I", "N", "1">>,
    <<"S", "E", "P", "T", "I", "N", "7", "P", "2">>,
    <<"S", "E", "P", "T", "I", "N", "1", "4">>,
    <<"S", "E", "L", "E", "N", "O", "F">>,
    <<"D", "E", "L", "E", "C", "1">>,
    <<"J", "U", "N">>,
    <<"M", "A", "R", "C", "H", "1">>,
    <<"S", "E", "P", "T", "2">>,
    <<"D", "E", "C", "1">>,
    <<"O", "C", "T", "4">>,
    <<"G", "e", "n", "e">>,
    <<" ", "0", "6", "/", "0", "3", "/", "1", "9", "9", "9", " ">>,
    <<"3", "0", "0", "0", "/", "0", "1", "/", "0", "1">>,
    <<"0", "2", "/", "3", "0", "/", "2", "0", "2", "3">>,
    <<"1", "3", "/", "1", "3", "/", "2", "0", "2", "3">>,
    <<"J", "u", "n", "e", " ", "2", "0", "2", "4">> }

CellInputs ==
  {NaN, Other, IntV(0), IntV(1), IntV(12345), FloatV(0), FloatV(31)}
    \cup {DateV(dt.y, dt.m, dt.d) : dt \in Dates}
    \cup {StrV(t) : t \in UNION {Renderings(dt) : dt \in Dates}}
    \cup {StrV(t) : t \in SpecialTexts}

\* the kinds of fault a parse of the library can end with
FaultKinds == {"ValueError", "TypeError", "OverflowError"}

(***************************************************************************)
(* State.                                                                  *)
(*   ts_unit   resolution of the library's timestamps in this installation *)
(* One call of process_cell_value, statement by statement:                 *)
(*   cx value, cpc position, ck index of the template tried next, ctext    *)
(*   the stripped text, cdt result of the classifier, cpath how it ended,  *)
(*   ctried number of template parses made, cfb last resort made, cfault   *)
(*   fault that left the classifier, cout (value, changed) returned.       *)
(* One run of the command:                                                 *)
(*   pc position, input_ok the input file can be read, output_path the -o  *)
(*   argument, xlsx the sheets as read, sh index of the sheet, i and j the *)
(*   loop indices, new_columns, new_df, changes, all_changes,              *)
(*   processed_sheets as in the code, written the file on disk, total the  *)
(*   value returned, status of the process, err_printed, fault_at, run     *)
(*   number of the invocation, firstrun what the first invocation wrote    *)
(*   and returned.                                                         *)
(***************************************************************************)
VARIABLES ts_unit,
          cx, cpc, ck, ctext, cdt, cpath, ctried, cfb, cfault, cout,
          pc, input_ok, output_path, xlsx, sh, i, j, new_columns, new_df,
          changes, all_changes, processed_sheets, written, total, status,
          err_printed, fault_at, run, firstrun

cvars == <<cx, cpc, ck, ctext, cdt, cpath, ctried, cfb, cfault, cout>>

mvars == <<pc, input_ok, output_path, xlsx, sh, i, j, new_columns, new_df,
           changes, all_changes, processed_sheets, written, total, status,
           err_printed, fault_at, run, firstrun>>

vars == <<ts_unit, cvars, mvars>>

Units == {"ns", "s"}

NoResult == [v |-> None, changed |-> FALSE]

CellIdle ==
  /\ cx = NaN /\ cpc = "idle" /\ ck = 0 /\ ctext = <<>> /\ cdt = None
  /\ cpath = "" /\ ctried = 0 /\ cfb = FALSE /\ cfault = "none"
  /\ cout = NoResult

MainIdle ==
  /\ pc = "idle" /\ input_ok = FALSE /\ output_path = "None" /\ xlsx = <<>>
  /\ sh = 0 /\ i = 0 /\ j = 0 /\ new_columns = <<>> /\ new_df = <<>>
  /\ changes = <<>> /\ all_changes = <<>> /\ processed_sheets = <<>>
  /\ written = <<>> /\ total = -1 /\ status = "running"
  /\ err_printed = FALSE /\ fault_at = "none" /\ run = 0
  /\ firstrun = [out |-> <<>>, total |-> -1]

(***************************************************************************)
(* process_cell_value(cx) with try_convert_to_datetime inlined.            *)
(***************************************************************************)
InitCell ==
  /\ ts_unit \in Units
  /\ cx \in CellInputs
  /\ cpc = "entry" /\ ck = 0 /\ ctext = <<>> /\ cdt = None /\ cpath = ""
  /\ ctried = 0 /\ cfb = FALSE /\ cfault = "none" /\ cout = NoResult
  /\ MainIdle

\* line 140, then lines 43-65 of the classifier
CellEntry ==
  /\ cpc = "entry"
  /\ IF IsNa(cx)
     THEN /\ cout' = [v |-> cx, changed |-> FALSE]
          /\ cpc' = "done" /\ cpath' = "missing"
          /\ UNCHANGED <<cdt, ck, ctext>>
     ELSE IF IsDatetime(cx)
     THEN /\ cdt' = cx /\ cpc' = "resolve" /\ cpath' = "typed"
          /\ UNCHANGED <<cout, ck, ctext>>
     ELSE IF NumericGuard(cx)
     THEN /\ cdt' = None /\ cpc' = "resolve" /\ cpath' = "numeric"
          /\ UNCHANGED <<cout, ck, ctext>>
     ELSE IF cx.t # "str"
     THEN /\ cdt' = None /\ cpc' = "resolve" /\ cpath' = "nontext"
          /\ UNCHANGED <<cout, ck, ctext>>
     ELSE IF STGuard(Strip(cx.s))
     THEN /\ cdt' = None /\ cpc' = "resolve" /\ cpath' = "st"
          /\ ctext' = Strip(cx.s)
          /\ UNCHANGED <<cout, ck>>
     ELSE IF DigitGuard(Strip(cx.s))
     THEN /\ cdt' = None /\ cpc' = "resolve" /\ cpath' = "digits"
          /\ ctext' = Strip(cx.s)
          /\ UNCHANGED <<cout, ck>>
     ELSE /\ ctext' = Strip(cx.s) /\ ck' = 1 /\ cpc' = "formats"
          /\ UNCHANGED <<cout, cdt, cpath>>
  /\ UNCHANGED <<ts_unit, cx, ctried, cfb, cfault, mvars>>

\* lines 68-77, one template: the date is returned, a ValueError goes on to
\* the next template, any other fault leaves the function
CellTryFormat ==
  /\ cpc = "formats"
  /\ ctried' = ctried + 1
  /\ IF TryFormat(ctext, ck, ts_unit) # ValueError
     THEN /\ cdt' = TryFormat(ctext, ck, ts_unit)
          /\ cpc' = "resolve" /\ cpath' = "template"
          /\ UNCHANGED <<ck, cfault>>
     ELSE \E f \in FaultKinds :
            IF f = "ValueError"
            THEN /\ IF ck < Len(Formats)
                    THEN ck' = ck + 1 /\ cpc' = "formats"
                    ELSE ck' = ck /\ cpc' = "lastresort"
                 /\ UNCHANGED <<cdt, cpath, cfault>>
            ELSE /\ cfault' = f /\ cpc' = "raised" /\ cpath' = "template"
                 /\ UNCHANGED <<cdt, ck>>
  /\ UNCHANGED <<ts_unit, cx, ctext, cfb, cout, mvars>>

\* variant: only a ValueError of the last resort is handled
CellLastResortValueErrorOnly ==
  /\ cpc = "lastresort"
  /\ cfb' = TRUE
  /\ \/ /\ cdt' = LastResort(ctext, ts_unit)
        /\ cpc' = "resolve"
        /\ cpath' = IF cdt' = None THEN "rejected" ELSE "lastresort"
        /\ UNCHANGED cfault
     \/ /\ GeneralParse(ctext, ts_unit) = NaT
        /\ \E f \in FaultKinds :
             IF f \in {"ValueError"}
             THEN /\ cdt' = None /\ cpc' = "resolve" /\ cpath' = "rejected"
                  /\ UNCHANGED cfault
             ELSE /\ cfault' = f /\ cpc' = "raised" /\ cpath' = "lastresort"
                  /\ UNCHANGED cdt
  /\ UNCHANGED <<ts_unit, cx, ck, ctext, ctried, cout, mvars>>

\* lines 79-91 for text: NaT is None; a ValueError or TypeError is None;
\* any other fault leaves the function
CellLastResort ==
  /\ cpc = "lastresort"
  /\ cfb' = TRUE
  /\ \/ /\ cdt' = LastResort(ctext, ts_unit)
        /\ cpc' = "resolve"
        /\ cpath' = IF cdt' = None THEN "rejected" ELSE "lastresort"
        /\ UNCHANGED cfault
     \/ /\ GeneralParse(ctext, ts_unit) = NaT
        /\ \E f \in FaultKinds :
             IF f \in {"ValueError", "TypeError"}
             THEN /\ cdt' = None /\ cpc' = "resolve" /\ cpath' = "rejected"
                  /\ UNCHANGED cfault
             ELSE /\ cfault' = f /\ cpc' = "raised" /\ cpath' = "lastresort"
                  /\ UNCHANGED cdt
  /\ UNCHANGED <<ts_unit, cx, ck, ctext, ctried, cout, mvars>>

\* lines 145-152
CellResolve ==
  /\ cpc = "resolve"
  /\ cout' = IF cdt # None THEN Resolve(cdt, load_reference_data)
             ELSE [v |-> cx, changed |-> FALSE]
  /\ cpc' = "done"
  /\ UNCHANGED <<ts_unit, cx, ck, ctext, cdt, cpath, ctried, cfb, cfault, mvars>>

NextCell == CellEntry \/ CellTryFormat \/ CellLastResort \/ CellResolve

SpecCell == InitCell /\ [][NextCell]_vars

(***************************************************************************)
(* Workbooks as pd.read_excel(sheet_name=None) returns them (line 165):    *)
(* an ordered mapping from sheet name to a frame with a header row.        *)
(***************************************************************************)
HeaderVals == {StrV(<<"g", "e", "n", "e">>), DateV(2023, 3, 1), DateV(2023, 7, 4)}

CellVals ==
  {NaN, IntV(1), FloatV(5), StrV(<<"T", "P", "5", "3">>), DateV(2024, 6, 15)}

IsNumeric(v) == v.t \in {"int", "float", "nan"}

\* what the reader guarantees of a frame: the column names differ, and a
\* numeric column holding a float or a missing value holds no integer
ReadConsistent(columns, rows) ==
  /\ \A a, b \in 1..Len(columns) : columns[a] = columns[b] => a = b
  /\ \A c \in 1..Len(columns) :
       (\A r \in 1..Len(rows) : IsNumeric(rows[r][c]))
         => ~(\E r1, r2 \in 1..Len(rows) :
                rows[r1][c].t = "int" /\ rows[r2][c].t \in {"float", "nan"})

FrameSize(nc, nr) == nc * (1 + nr)

Frames(budget) ==
  UNION { {f \in [columns : [1..nc -> HeaderVals],
                  rows : [1..nr -> [1..nc -> CellVals]]] :
             ReadConsistent(f.columns, f.rows)} :
          <<nc, nr>> \in {sz \in (1..MaxCols) \X (0..MaxRows) :
                            FrameSize(sz[1], sz[2]) <= budget} }

\* sequences of at most n frames holding at most budget values
RECURSIVE FrameSeqs(_, _)
FrameSeqs(n, budget) ==
  IF n = 0 THEN {<<>>}
  ELSE {<<>>} \cup
       UNION { {<<f>> \o rest :
                  rest \in FrameSeqs(n - 1,
                             budget - FrameSize(Len(f.columns), Len(f.rows)))} :
               f \in Frames(budget) }

SheetName(k) == <<"S">> \o NumStr(k)

\* the sheets of a file, in the order of the file
Workbooks ==
  { [k \in 1..Len(fs) |->
       [name |-> SheetName(IF rev THEN Len(fs) + 1 - k ELSE k),
        columns |-> fs[k].columns, rows |-> fs[k].rows]] :
    <<fs, rev>> \in (FrameSeqs(MaxSheets, MaxCells) \ {<<>>}) \X BOOLEAN }

\* line 191, df.values: the cells as one array.  When every cell is a
\* number and one of them is a float, the array is a float array.
DfValues(rows) ==
  IF /\ \A r \in 1..Len(rows) : \A c \in 1..Len(rows[r]) : IsNumeric(rows[r][c])
     /\ \E r \in 1..Len(rows) : \E c \in 1..Len(rows[r]) :
          rows[r][c].t \in {"float", "nan"}
  THEN [r \in 1..Len(rows) |->
          [c \in 1..Len(rows[r]) |->
             IF rows[r][c].t = "int" THEN FloatV(10 * rows[r][c].n)
             ELSE rows[r][c]]]
  ELSE rows

\* line 188: new_columns[i] = new_value
SetColumn(columns, k, v) == [columns EXCEPT ![k + 1] = v]

\* line 208: new_df.iat[i, j] = new_value
SetCell(df, r, c, v) == [df EXCEPT ![r + 1][c + 1] = v]

\* variant: the sheet is put in front of the sheets already stored
StoreSheetFirst(sheets, sheet_name, columns, df) ==
  <<[name |-> sheet_name, columns |-> columns, rows |-> df]>> \o sheets

\* line 211: processed_sheets[sheet_name] = new_df
StoreSheet(sheets, sheet_name, columns, df) ==
  Append(sheets, [name |-> sheet_name, columns |-> columns, rows |-> df])

\* the file read back: a float without fraction is an integer again, and a
\* numeric column keeps one type
ReadCell(v) == IF v.t = "float" /\ v.n % 10 = 0 THEN IntV(v.n \div 10) ELSE v

ReadRows(rows) ==
  LET cells == [r \in 1..Len(rows) |-> [c \in 1..Len(rows[r]) |-> ReadCell(rows[r][c])]]
      floatcol(c) ==
        /\ \A r \in 1..Len(cells) : IsNumeric(cells[r][c])
        /\ \E r \in 1..Len(cells) : cells[r][c].t \in {"float", "nan"}
  IN [r \in 1..Len(cells) |->
        [c \in 1..Len(cells[r]) |->
           IF floatcol(c) /\ cells[r][c].t = "int"
           THEN FloatV(10 * cells[r][c].n) ELSE cells[r][c]]]

ReadBack(sheets) ==
  [k \in 1..Len(sheets) |->
     [name |-> sheets[k].name, columns |-> sheets[k].columns,
      rows |-> ReadRows(sheets[k].rows)]]

\* the classifier calls the library for this value, and the call fails
CallsParser(x, unit) ==
  /\ ~IsNa(x) /\ x.t = "str" /\ ~NumericGuard(x) /\ ~TextGuard(Strip(x.s))
  /\ TryFormat(Strip(x.s), 1, unit) = ValueError

(***************************************************************************)
(* The command: main, scan_and_fix_excel.                                  *)
(***************************************************************************)
Init ==
  /\ ts_unit \in Units
  /\ output_path \in {"None", "out.xlsx"}
  /\ input_ok \in BOOLEAN
  /\ IF input_ok THEN xlsx \in Workbooks ELSE xlsx = <<>>
  /\ pc = "main" /\ run = 1
  /\ sh = 0 /\ i = 0 /\ j = 0 /\ new_columns = <<>> /\ new_df = <<>>
  /\ changes = <<>> /\ all_changes = <<>> /\ processed_sheets = <<>>
  /\ written = <<>> /\ total = -1 /\ status = "running"
  /\ err_printed = FALSE /\ fault_at = "none"
  /\ firstrun = [out |-> <<>>, total |-> -1]
  /\ CellIdle

\* lines 239-248: the arguments are parsed, scan_and_fix_excel is called
Main ==
  /\ pc = "main"
  /\ pc' = "read"
  /\ UNCHANGED <<ts_unit, cvars, input_ok, output_path, xlsx, sh, i, j,
                 new_columns, new_df, changes, all_changes, processed_sheets,
                 written, total, status, err_printed, fault_at, run, firstrun>>

\* lines 159-168
ReadExcel ==
  /\ pc = "read"
  /\ IF input_ok
     THEN /\ all_changes' = <<>> /\ processed_sheets' = <<>>
          /\ sh' = 1 /\ pc' = "sheet"
          /\ UNCHANGED fault_at
     ELSE /\ pc' = "except" /\ fault_at' = "read"
          /\ UNCHANGED <<all_changes, processed_sheets, sh>>
  /\ UNCHANGED <<ts_unit, cvars, input_ok, output_path, xlsx, i, j,
                 new_columns, new_df, changes, written, total, status,
                 err_printed, run, firstrun>>

\* lines 171-176
StartSheet ==
  /\ pc = "sheet"
  /\ changes' = <<>>
  /\ new_columns' = xlsx[sh].columns
  /\ j' = 0
  /\ pc' = "headers"
  /\ UNCHANGED <<ts_unit, cvars, input_ok, output_path, xlsx, sh, i, new_df,
                 all_changes, processed_sheets, written, total, status,
                 err_printed, fault_at, run, firstrun>>

\* lines 177-188, one column name
ProcessHeader ==
  /\ pc = "headers"
  /\ j < Len(new_columns)
  /\ LET col == new_columns[j + 1]
         res == process_cell_value(col, load_reference_data, ts_unit)
     IN IF res.changed
        THEN /\ changes' = Append(changes,
                             Change(xlsx[sh].name, HeaderLocation(j), col, res.v))
             /\ new_columns' = SetColumn(new_columns, j, res.v)
        ELSE UNCHANGED <<changes, new_columns>>
  /\ j' = j + 1
  /\ UNCHANGED <<ts_unit, cvars, pc, input_ok, output_path, xlsx, sh, i, new_df,
                 all_changes, processed_sheets, written, total, status,
                 err_printed, fault_at, run, firstrun>>

\* line 191
NewDataFrame ==
  /\ pc = "headers"
  /\ j = Len(new_columns)
  /\ new_df' = DfValues(xlsx[sh].rows)
  /\ i' = 0 /\ j' = 0
  /\ pc' = "cells"
  /\ UNCHANGED <<ts_unit, cvars, input_ok, output_path, xlsx, sh, new_columns,
                 changes, all_changes, processed_sheets, written, total,
                 status, err_printed, fault_at, run, firstrun>>

\* variant: the location names the column as it was read
ProcessCellOldHeader ==
  /\ pc = "cells"
  /\ i < Len(xlsx[sh].rows)
  /\ LET old_value == xlsx[sh].rows[i + 1][j + 1]
         res == process_cell_value(old_value, load_reference_data, ts_unit)
     IN IF res.changed
        THEN /\ changes' = Append(changes,
                             Change(xlsx[sh].name,
                                    CellLocation(i, j, xlsx[sh].columns),
                                    old_value, res.v))
             /\ new_df' = SetCell(new_df, i, j, res.v)
        ELSE UNCHANGED <<changes, new_df>>
  /\ IF j + 1 < Len(xlsx[sh].columns)
     THEN j' = j + 1 /\ i' = i
     ELSE j' = 0 /\ i' = i + 1
  /\ UNCHANGED <<ts_unit, cvars, pc, input_ok, output_path, xlsx, sh,
                 new_columns, all_changes, processed_sheets, written, total,
                 status, err_printed, fault_at, run, firstrun>>

\* lines 194-208, one cell
ProcessCell ==
  /\ pc = "cells"
  /\ i < Len(xlsx[sh].rows)
  /\ LET old_value == xlsx[sh].rows[i + 1][j + 1]
         res == process_cell_value(old_value, load_reference_data, ts_unit)
     IN IF res.changed
        THEN /\ changes' = Append(changes,
                             Change(xlsx[sh].name,
                                    CellLocation(i, j, new_columns),
                                    old_value, res.v))
             /\ new_df' = SetCell(new_df, i, j, res.v)
        ELSE UNCHANGED <<changes, new_df>>
  /\ IF j + 1 < Len(xlsx[sh].columns)
     THEN j' = j + 1 /\ i' = i
     ELSE j' = 0 /\ i' = i + 1
  /\ UNCHANGED <<ts_unit, cvars, pc, input_ok, output_path, xlsx, sh,
                 new_columns, all_changes, processed_sheets, written, total,
                 status, err_printed, fault_at, run, firstrun>>

\* lines 211-222
FinishSheet ==
  /\ pc = "cells"
  /\ i = Len(xlsx[sh].rows)
  /\ processed_sheets' = StoreSheet(processed_sheets, xlsx[sh].name, new_columns, new_df)
  /\ all_changes' = all_changes \o changes
  /\ IF sh < Len(xlsx)
     THEN sh' = sh + 1 /\ pc' = "sheet"
     ELSE sh' = sh /\ pc' = "write"
  /\ UNCHANGED <<ts_unit, cvars, input_ok, output_path, xlsx, i, j, new_columns,
                 new_df, changes, written, total, status, err_printed,
                 fault_at, run, firstrun>>

\* a parse of the library ends with a fault that the classifier does not
\* handle, while a column name or a cell is processed
ClassifierFault ==
  /\ \/ /\ pc = "headers" /\ j < Len(new_columns)
        /\ CallsParser(new_columns[j + 1], ts_unit)
     \/ /\ pc = "cells" /\ i < Len(xlsx[sh].rows)
        /\ CallsParser(xlsx[sh].rows[i + 1][j + 1], ts_unit)
  /\ pc' = "except" /\ fault_at' = "process"
  /\ UNCHANGED <<ts_unit, cvars, input_ok, output_path, xlsx, sh, i, j,
                 new_columns, new_df, changes, all_changes, processed_sheets,
                 written, total, status, err_printed, run, firstrun>>

\* lines 225-227: pd.ExcelWriter(output_path) rejects a path that is None;
\* a file that cannot be written is a fault too
WriteExcel ==
  /\ pc = "write"
  /\ \/ /\ output_path # "None"
        /\ written' = processed_sheets
        /\ pc' = "summary"
        /\ UNCHANGED fault_at
     \/ /\ pc' = "except" /\ fault_at' = "write"
        /\ UNCHANGED written
  /\ UNCHANGED <<ts_unit, cvars, input_ok, output_path, xlsx, sh, i, j,
                 new_columns, new_df, changes, all_changes, processed_sheets,
                 total, status, err_printed, run, firstrun>>

\* lines 229-235, and main returns
Summary ==
  /\ pc = "summary"
  /\ total' = Len(all_changes)
  /\ status' = "ok"
  /\ pc' = "done"
  /\ UNCHANGED <<ts_unit, cvars, input_ok, output_path, xlsx, sh, i, j,
                 new_columns, new_df, changes, all_changes, processed_sheets,
                 written, err_printed, fault_at, run, firstrun>>

\* lines 249-251: the message is printed and the fault raised again
Except ==
  /\ pc = "except"
  /\ err_printed' = TRUE
  /\ status' = "error"
  /\ pc' = "exit"
  /\ UNCHANGED <<ts_unit, cvars, input_ok, output_path, xlsx, sh, i, j,
                 new_columns, new_df, changes, all_changes, processed_sheets,
                 written, total, fault_at, run, firstrun>>

\* the command is run again, on the file it wrote
Rerun ==
  /\ pc = "done" /\ run = 1
  /\ run' = 2
  /\ firstrun' = [out |-> written, total |-> total]
  /\ xlsx' = ReadBack(written)
  /\ pc' = "main"
  /\ sh' = 0 /\ i' = 0 /\ j' = 0 /\ new_columns' = <<>> /\ new_df' = <<>>
  /\ changes' = <<>> /\ all_changes' = <<>> /\ processed_sheets' = <<>>
  /\ total' = -1 /\ status' = "running"
  /\ UNCHANGED <<ts_unit, cvars, input_ok, output_path, written, err_printed,
                 fault_at>>

Next ==
  \/ Main \/ ReadExcel \/ StartSheet \/ ProcessHeader \/ NewDataFrame
  \/ ProcessCell \/ FinishSheet \/ ClassifierFault \/ WriteExcel \/ Summary
  \/ Except \/ Rerun

Spec == Init /\ [][Next]_vars

(***************************************************************************)
(* Properties of one cell (SpecCell).                                      *)
(***************************************************************************)
Returned == cpc \in {"resolve", "done"}

Accepted == Returned /\ cdt # None

JUN == <<"J", "U", "N">>

\* the table as the specification lists it
ExpectedSymbol(m, d) ==
  CASE m = 3 /\ d \in {1, 12, 13, 14, 15, 16} -> <<"M", "A", "R", "C", "H", "F", "1">>
    [] m = 3 /\ d = 2 -> <<"M", "A", "R", "C", "H", "F", "2">>
    [] m = 3 /\ d \in {3, 31} -> <<"M", "A", "R", "C", "H", "F", "3">>
    [] m = 3 /\ d \in 4..11 -> <<"M", "A", "R", "C", "H", "F">> \o NumStr(d)
    [] m = 9 /\ d \in 1..12 -> <<"S", "E", "P", "T", "I", "N">> \o NumStr(d)
    [] m = 9 /\ d = 13 -> <<"S", "E", "P", "T", "I", "N", "7", "P", "2">>
    [] m = 9 /\ d = 14 -> <<"S", "E", "P", "T", "I", "N", "1", "4">>
    [] m = 9 /\ d = 15 -> <<"S", "E", "L", "E", "N", "O", "F">>
    [] m = 12 /\ d = 1 -> <<"D", "E", "L", "E", "C", "1">>
    [] OTHER -> month_map[m] \o <<"-">> \o ZFill2(d)

\* C3: a value classified as a date of month m (not June) and day d is
\* written as the symbol the table gives for the code MMM-DD, one of its 33
\* keys, and as the code itself when the table has no such key; either way
\* the position is reported as changed.
ReferenceResolution ==
  /\ Cardinality(DOMAIN load_reference_data) = 33
  /\ (cpc = "done" /\ cdt # None /\ cdt.m # 6)
       => /\ cout.changed
          /\ cout.v = StrV(ExpectedSymbol(cdt.m, cdt.d))

\* a text date of the 13th of September has been written as SEPTIN7P2
ReferenceResolutionWitness ==
  /\ cpc = "done" /\ cx.t = "str" /\ cpath = "template"
  /\ cdt.m = 9 /\ cdt.d = 13
  /\ cout.v = StrV(<<"S", "E", "P", "T", "I", "N", "7", "P", "2">>)

\* C4: every value accepted as a date in June, whatever its day and year and
\* whether it was date-typed, matched a template or was accepted by the last
\* resort, is written as the bare code JUN and reported as changed.
JuneCollapse ==
  (cpc = "done" /\ cdt # None /\ cdt.m = 6)
    => /\ cout.changed
       /\ cout.v = StrV(JUN)

\* a date-typed 15th of June has been written as JUN
JuneCollapseWitness ==
  /\ cpc = "done" /\ cpath = "typed"
  /\ cx.m = 6 /\ cx.d = 15
  /\ cout.v = StrV(JUN)

\* the classes of value that C5 says are never parsed
GuardedClass(x) ==
  \/ x.t \in {"int", "float"}
  \/ x.t = "str" /\ IsFloatStr(x.s)
  \/ x.t = "str" /\ StartsWith(Upper(Strip(x.s)), <<"S", "T">>)
  \/ x.t = "str" /\ IsDigitStr(Remove(Remove(Strip(x.s), "."), "-"))

\* C5: a number, a text that parses as a float (zero and exponent or sign
\* notation included), a text starting with ST, and a text of digits, points
\* and hyphens only are not dates: no template and no last resort is tried
\* for them, and the cell is passed through unchanged.
GuardsRejectWithoutParsing ==
  GuardedClass(cx)
    => /\ ctried = 0
       /\ ~cfb
       /\ cpc # "raised"
       /\ Returned => cdt = None
       /\ cpc = "done" => cout = [v |-> cx, changed |-> FALSE]

JuneSentinelOnEveryPath ==
  (Accepted /\ cdt.m = 6) => cdt = DateV(2000, 6, 1)

\* C10 as amended: a June date accepted by a template or by the last resort
\* is returned as datetime(2000, 6, 1); a date-typed value is returned as it
\* is, with its own day and year.
JuneSentinelOnParsedPaths ==
  /\ (Accepted /\ cdt.m = 6 /\ cpath \in {"template", "lastresort"})
       => cdt = DateV(2000, 6, 1)
  /\ (Accepted /\ cpath = "typed") => cdt = cx
  /\ Accepted => cpath \in {"typed", "template", "lastresort"}

\* the text 06/03/1999 matched a template and the sentinel was returned
JuneSentinelWitness ==
  /\ cpc = "resolve" /\ cpath = "template"
  /\ ctext = <<"0", "6", "/", "0", "3", "/", "1", "9", "9", "9">>
  /\ cdt = DateV(2000, 6, 1)

(***************************************************************************)
(* Properties of a run of the command (Spec).                              *)
(***************************************************************************)
\* the sheets have all been processed and are handed to the writer
Handed == pc \in {"write", "summary", "done"}

Classified(v) == process_cell_value(v, load_reference_data, ts_unit).changed

Replacement(v) == process_cell_value(v, load_reference_data, ts_unit).v

\* the same number, whatever its numeric type
SameNumber(a, b) ==
  \/ a = b
  \/ a.t = "int" /\ b = FloatV(10 * a.n)

\* C2: the workbook handed to the writer has the sheets of the input, with
\* the same names in the same order, and each sheet has the rows and columns
\* of the input sheet, with every value, corrected or not, at the position
\* it had in the input.
ShapePreserved ==
  Handed =>
    /\ Len(processed_sheets) = Len(xlsx)
    /\ \A k \in 1..Len(xlsx) :
         LET din == xlsx[k]
             dout == processed_sheets[k]
         IN /\ dout.name = din.name
            /\ Len(dout.columns) = Len(din.columns)
            /\ Len(dout.rows) = Len(din.rows)
            /\ \A c \in 1..Len(din.columns) :
                 dout.columns[c] =
                   IF Classified(din.columns[c]) THEN Replacement(din.columns[c])
                   ELSE din.columns[c]
            /\ \A r \in 1..Len(din.rows) :
                 /\ Len(dout.rows[r]) = Len(din.rows[r])
                 /\ \A c \in 1..Len(din.rows[r]) :
                      IF Classified(din.rows[r][c])
                      THEN dout.rows[r][c] = Replacement(din.rows[r][c])
                      ELSE SameNumber(din.rows[r][c], dout.rows[r][c])

\* two sheets, S2 before S1, one with a corrected value and one with an
\* untouched value, are handed to the writer
ShapePreservedWitness ==
  /\ pc = "write" /\ run = 1
  /\ Len(xlsx) = 2
  /\ xlsx[1].name = SheetName(2) /\ processed_sheets[1].name = SheetName(2)
  /\ Len(xlsx[1].rows) = 1 /\ Len(xlsx[2].rows) = 1
  /\ Classified(xlsx[1].rows[1][1]) /\ ~Classified(xlsx[2].rows[1][1])
  /\ Classified(xlsx[2].columns[1])

RECURSIVE Flatten(_)
Flatten(ss) == IF Len(ss) = 0 THEN <<>> ELSE Head(ss) \o Flatten(Tail(ss))

\* the column names of a sheet once every column name has been processed
CorrectedColumns(d) ==
  [c \in 1..Len(d.columns) |->
     IF Classified(d.columns[c]) THEN Replacement(d.columns[c]) ELSE d.columns[c]]

\* the log of one sheet: the corrected column names by index, then the
\* corrected cells row by row
SheetLog(d) ==
  LET nc == Len(d.columns)
      hpos == [c \in 1..nc |-> c - 1]
      cpos == [q \in 1..(nc * Len(d.rows)) |-> <<(q - 1) \div nc, (q - 1) % nc>>]
      hchg == SelectSeq(hpos, LAMBDA c : Classified(d.columns[c + 1]))
      cchg == SelectSeq(cpos, LAMBDA p : Classified(d.rows[p[1] + 1][p[2] + 1]))
  IN [q \in 1..Len(hchg) |->
        [sheet |-> d.name,
         location |-> <<"C", "o", "l", "u", "m", "n", " ", "h", "e", "a", "d", "e", "r", " ">> \o NumStr(hchg[q]),
         old_value |-> StrOf(d.columns[hchg[q] + 1]),
         new_value |-> StrOf(Replacement(d.columns[hchg[q] + 1]))]]
     \o
     [q \in 1..Len(cchg) |->
        [sheet |-> d.name,
         location |-> <<"R", "o", "w", " ">> \o NumStr(cchg[q][1])
                        \o <<",", " ", "C", "o", "l", "u", "m", "n", " ">> \o NumStr(cchg[q][2])
                        \o <<" ", "(">>
                        \o StrOf(CorrectedColumns(d)[cchg[q][2] + 1])
                        \o <<")">>,
         old_value |-> StrOf(d.rows[cchg[q][1] + 1][cchg[q][2] + 1]),
         new_value |-> StrOf(Replacement(d.rows[cchg[q][1] + 1][cchg[q][2] + 1]))]]

CountIn(wb, P(_)) ==
  LET hs == Flatten([k \in 1..Len(wb) |-> wb[k].columns])
      cells == Flatten([k \in 1..Len(wb) |-> Flatten(wb[k].rows)])
  IN Len(SelectSeq(hs, P)) + Len(SelectSeq(cells, P))

\* C9: a column name or a cell is replaced, with exactly one entry of the
\* log, exactly when it is not missing and was classified as a date; every
\* other column name and cell is in the output with the value and the type
\* it had in the input; and the count returned is the number of entries,
\* which is the number of classified column names and cells.
ChangeAccountingAndFrame ==
  /\ Handed =>
       /\ Len(all_changes) = CountIn(xlsx, Classified)
       /\ \A k \in 1..Len(xlsx) :
            /\ \A c \in 1..Len(xlsx[k].columns) :
                 ~Classified(xlsx[k].columns[c])
                   => processed_sheets[k].columns[c] = xlsx[k].columns[c]
            /\ \A r \in 1..Len(xlsx[k].rows) :
                 \A c \in 1..Len(xlsx[k].rows[r]) :
                   ~Classified(xlsx[k].rows[r][c])
                     => processed_sheets[k].rows[r][c] = xlsx[k].rows[r][c]
  /\ pc = "done" => total = Len(all_changes)

\* C7: without an output path and with a readable input the command runs
\* to success; and when a fault occurs, the message is printed and the
\* process ends with an error.
OutputPathOptional ==
  /\ (input_ok /\ output_path = "None" /\ fault_at # "process")
       => pc \notin {"except", "exit"}
  /\ pc = "exit" => (err_printed /\ status = "error")

IsCode(t) ==
  \/ t = JUN
  \/ \E m \in 1..12 : \E d \in 1..31 : t = month_map[m] \o <<"-">> \o ZFill2(d)

====
